---- MODULE Spec2Model ----
(***************************************************************************)
(* Model of pylib/troubleshoot/openrazer.py: the OpenRazer troubleshooter. *)
(*                                                                         *)
(* Python values are modelled as tagged records so that values of          *)
(* different Python types can be compared:                                 *)
(*   None              [kind |-> "None"]                                   *)
(*   a result dict     [kind |-> "dict", test_name |-> .., passed |-> ..]  *)
(*   a list            [kind |-> "list", items |-> <<..>>]                 *)
(*   a raised fault    [kind |-> "raise", exc |-> ..]                      *)
(*   a str (error)     [kind |-> "str", text |-> ..]                       *)
(*   True, False       [kind |-> "bool", value |-> ..]                     *)
(* The "suggestions" key of a result is not modelled: no                   *)
(* property below reads it.  Text the code parses (PID file, od output,    *)
(* version numbers) is a sequence of one-character strings.                *)
(***************************************************************************)
EXTENDS Integers, Sequences, FiniteSets, TLC

VARIABLES
    sysname,             \* os.uname().sysname
    PYTHON_LIB_PRESENT,  \* module global set at import time
    efi,                 \* /sys/firmware/efi: whether it exists, and the glob's files
    razer_log,           \* ~/.local/share/openrazer/logs/razer.log
    pc,                  \* troubleshoot(): the statement about to run
    results,             \* troubleshoot(): the local list
    invoked,             \* check functions troubleshoot() has called so far
    ret,                 \* troubleshoot(): the value returned
    raised,              \* troubleshoot(): the fault a check raised, None if none
    call                 \* the last single invocation of a check: fn, args, out

vars == <<sysname, PYTHON_LIB_PRESENT, efi, razer_log, pc, results, invoked, ret, raised, call>>

-----------------------------------------------------------------------------
(* Bounds *)

MaxMajor == 3
MaxMinor == 1
MaxPatch == 10
MaxSbLen == 2

-----------------------------------------------------------------------------
(* Python values *)

None == [kind |-> "None"]
Raise(e) == [kind |-> "raise", exc |-> e]
Dict(name, p) == [kind |-> "dict", test_name |-> name, passed |-> p]
List(s) == [kind |-> "list", items |-> s]
Bool(b) == [kind |-> "bool", value |-> b]
True == Bool(TRUE)
False == Bool(FALSE)

-----------------------------------------------------------------------------
(* Text helpers: str.strip, str.split, int(), float(), str(), od *)

Digits == <<"0", "1", "2", "3", "4", "5", "6", "7", "8", "9">>
IsDigit(c) == \E i \in 1..10 : Digits[i] = c
DigitVal(c) == (CHOOSE i \in 1..10 : Digits[i] = c) - 1
IsSpace(c) == c \in {" ", "\n"}

RECURSIVE LStrip(_)
LStrip(s) == IF s # <<>> /\ IsSpace(Head(s)) THEN LStrip(Tail(s)) ELSE s

RECURSIVE RStrip(_)
RStrip(s) == IF s # <<>> /\ IsSpace(s[Len(s)]) THEN RStrip(SubSeq(s, 1, Len(s) - 1)) ELSE s

\* str.strip()
Strip(s) == RStrip(LStrip(s))

\* str.split(sep) with an explicit one-character separator: empty fields are kept
RECURSIVE SplitFrom(_, _, _, _)
SplitFrom(s, sep, i, cur) ==
    IF i > Len(s) THEN <<cur>>
    ELSE IF s[i] = sep THEN <<cur>> \o SplitFrom(s, sep, i + 1, <<>>)
    ELSE SplitFrom(s, sep, i + 1, Append(cur, s[i]))

Split(s, sep) == SplitFrom(s, sep, 1, <<>>)

\* the value of a string of decimal digits
RECURSIVE DigitsVal(_)
DigitsVal(s) == IF s = <<>> THEN 0 ELSE 10 * DigitsVal(SubSeq(s, 1, Len(s) - 1)) + DigitVal(s[Len(s)])

\* int(s) accepts surrounding whitespace and then needs one or more digits
\* (signs and underscores are not in the modelled alphabet)
IntOk(s) == Strip(s) # <<>> /\ \A i \in 1..Len(Strip(s)) : IsDigit(Strip(s)[i])
IntVal(s) == DigitsVal(Strip(s))

\* float(s) accepts surrounding whitespace, then digits with at most one "."
\* and at least one digit: "1.0", ".5", "5.", "7"
NoDots(s) == SelectSeq(s, LAMBDA c : c # ".")
FloatOk(s) ==
    LET t == Strip(s) IN
    /\ Len(t) - Len(NoDots(t)) <= 1
    /\ NoDots(t) # <<>>
    /\ \A i \in 1..Len(NoDots(t)) : IsDigit(NoDots(t)[i])

RECURSIVE Pow10(_)
Pow10(n) == IF n = 0 THEN 1 ELSE 10 * Pow10(n - 1)

\* float(s) as the fraction num / den
FloatVal(s) ==
    LET t == Strip(s)
        parts == Split(t, ".")
        frac == IF Len(parts) = 2 THEN parts[2] ELSE <<>>
    IN  [num |-> DigitsVal(NoDots(t)), den |-> Pow10(Len(frac))]

FloatGt(a, b) == a.num * b.den > b.num * a.den

\* str(n) for n >= 0
RECURSIVE ToStr(_)
ToStr(n) == IF n < 10 THEN <<Digits[n + 1]>> ELSE ToStr(n \div 10) \o <<Digits[(n % 10) + 1]>>

\* s.find(sub) != -1
Contains(s, sub) ==
    \E i \in 0..(Len(s) - Len(sub)) : SubSeq(s, i + 1, i + Len(sub)) = sub

\* one output line of "od --address-radix=n --format=u1": every byte right-aligned
\* in a field of four characters, sixteen bytes to a line
RECURSIVE PadLeft(_, _)
PadLeft(s, w) == IF Len(s) >= w THEN s ELSE PadLeft(<<" ">> \o s, w)

RECURSIVE OdFrom(_, _)
OdFrom(bytes, i) ==
    IF i > Len(bytes) THEN <<>>
    ELSE PadLeft(ToStr(bytes[i]), 4)
         \o (IF i % 16 = 0 \/ i = Len(bytes) THEN <<"\n">> ELSE <<>>)
         \o OdFrom(bytes, i + 1)

Od(bytes) == OdFrom(bytes, 1)

\* f.readline(): up to and including the first newline
RECURSIVE Readline(_)
Readline(s) ==
    IF s = <<>> THEN <<>>
    ELSE IF Head(s) = "\n" THEN <<"\n">>
    ELSE <<Head(s)>> \o Readline(Tail(s))

-----------------------------------------------------------------------------
(* Literals of the source *)

S_razer == <<"r", "a", "z", "e", "r">>
S_plugdev == <<"p", "l", "u", "g", "d", "e", "v">>
S_could_not_access == <<"C", "o", "u", "l", "d", " ", "n", "o", "t", " ", "a", "c", "c", "e", "s", "s", " ", "/", "s", "y", "s", "/">>

-----------------------------------------------------------------------------
(* The checks *)

_is_daemon_installed(which) ==
    Dict("Daemon is installed", Bool(which # None))

\* environ: whether XDG_RUNTIME_DIR is set; files: the two candidate PID files,
\* each [exists |-> FALSE] or [exists |-> TRUE, text |-> ..]; proc: the names
\* of the entries of /proc
daemon_pid_file_xdg_only(environ_has_xdg) == "XDG_RUNTIME_DIR/openrazer-daemon.pid"
daemon_pid_file(environ_has_xdg) ==
    IF environ_has_xdg THEN "XDG_RUNTIME_DIR/openrazer-daemon.pid"
    ELSE "/run/user/UID/openrazer-daemon.pid"

_is_daemon_running(environ_has_xdg, files, proc) ==
    LET f == files[daemon_pid_file(environ_has_xdg)]
        line == Readline(f.text)
        daemon_running == f.exists /\ ToStr(IntVal(line)) \in proc
    IN  IF f.exists /\ ~IntOk(line) THEN Raise("ValueError")
        ELSE Dict("Daemon is running", Bool(daemon_running))

_is_pylib_installed ==
    Dict("Python library is installed", Bool(PYTHON_LIB_PRESENT))

expected_dkms_src(dkms_version) ==
    [path |-> "/var/lib/dkms/openrazer-driver/{0}", a |-> dkms_version, b |-> ""]
expected_dkms_build(uname) ==
    [path |-> "/var/lib/dkms/openrazer-driver/kernel-{0}-{1}", a |-> uname.release, b |-> uname.machine]

\* dkms_version: rclient.__version__; uname: os.uname(); fs: the paths that
\* exist; kmod: whether modprobe and lsmod can be executed; code: modprobe's
\* exit code; lsmod_output: what lsmod prints
_run_dkms_checks(dkms_version, uname, fs, kmod, code, lsmod_output) ==
    LET dkms_installed_src ==
            IF PYTHON_LIB_PRESENT THEN Bool(expected_dkms_src(dkms_version) \in fs) ELSE None
        dkms_installed_built ==
            IF PYTHON_LIB_PRESENT THEN Bool(expected_dkms_build(uname) \in fs) ELSE None
    IN  IF ~PYTHON_LIB_PRESENT THEN Raise("UnboundLocalError")
        ELSE IF ~kmod THEN Raise("FileNotFoundError")
        ELSE List(<<
            Dict("DKMS sources are installed", dkms_installed_src),
            Dict("DKMS module has been built for this kernel version", dkms_installed_built),
            Dict("DKMS module can be probed", Bool(code = 0)),
            Dict("DKMS module is currently loaded", Bool(Contains(lsmod_output, S_razer))) >>)

\* sb_sysfile: the files the glob matched, each the bytes of the file
od_status_first(file) ==
    LET fields == SelectSeq(Split(Od(file), " "), LAMBDA x : x # <<>>)
    IN  IF fields = <<>> THEN <<>> ELSE Strip(fields[1])
od_status(file) ==
    LET fields == Split(Od(file), " ") IN Strip(fields[Len(fields)])

_is_secure_boot_enabled(sb_sysfile) ==
    IF Len(sb_sysfile) > 0
    THEN LET status == od_status(sb_sysfile[1]) IN
         IF ~IntOk(status) THEN Raise("ValueError")
         ELSE Dict("Check Secure Boot (EFI) status", Bool(IntVal(status) = 0))
    ELSE Dict("Check Secure Boot (EFI) status", None)

\* groups_cmd: whether "groups" can be executed; groups: what it prints
_is_user_in_plugdev_group(groups_cmd, groups) ==
    IF ~groups_cmd THEN Raise("FileNotFoundError")
    ELSE Dict("User account has been added to the 'plugdev' group",
              Bool(Contains(groups, S_plugdev)))

\* log: [exists |-> FALSE], or [exists |-> TRUE, decodes |-> .., text |-> ..]
_is_sysfs_plugdev_permissions_ok(log) ==
    IF log.exists
    THEN IF ~log.decodes THEN Raise("UnicodeDecodeError")
         ELSE Dict("Check OpenRazer log for plugdev permission errors",
                   Bool(~Contains(log.text, S_could_not_access)))
    ELSE None

_is_version_newer_then_by_component(verA, verB) ==
    LET a == Split(verA, ".")
        b == Split(verB, ".")
    IN  Bool(\/ IntVal(a[1]) > IntVal(b[1])
             \/ IntVal(a[1]) = IntVal(b[1]) /\ IntVal(a[2]) > IntVal(b[2])
             \/ IntVal(a[1]) = IntVal(b[1]) /\ IntVal(a[2]) = IntVal(b[2]) /\ IntVal(a[3]) > IntVal(b[3]))
_is_version_newer_then(verA, verB) ==
    LET a == Split(verA, ".")
        b == Split(verB, ".")
    IN  IF ~IntOk(a[1]) \/ ~IntOk(b[1]) THEN Raise("ValueError")
        ELSE IF Len(a) < 3 \/ Len(b) < 3 THEN Raise("IndexError")
        ELSE IF ~FloatOk(a[2] \o <<".">> \o a[3]) \/ ~FloatOk(b[2] \o <<".">> \o b[3])
             THEN Raise("ValueError")
        ELSE Bool(\/ IntVal(a[1]) > IntVal(b[1])
                  \/ FloatGt(FloatVal(a[2] \o <<".">> \o a[3]),
                             FloatVal(b[2] \o <<".">> \o b[3])))

\* request: what requests.get gives: [kind |-> "raise", ..] or
\* [kind |-> "response", status_code |-> .., text |-> ..]
remote_version_of(request) ==
    IF request.kind = "response" /\ request.status_code = 200
       /\ Len(Split(Strip(request.text), ".")) = 3
    THEN Strip(request.text)
    ELSE <<>>

_is_openrazer_up_to_date(local_version, request) ==
    IF PYTHON_LIB_PRESENT
    THEN LET remote_version == remote_version_of(request) IN
         IF remote_version # <<>>
         THEN LET is_new == _is_version_newer_then(remote_version, local_version) IN
              IF is_new.kind = "bool"
              THEN Dict("OpenRazer is the latest version", Bool(is_new # True))
              ELSE is_new
         ELSE Dict("OpenRazer is the latest version", None)
    ELSE None

-----------------------------------------------------------------------------
(* What the checks read from the host *)

Str(t) == [kind |-> "str", text |-> t]

WhichResults == {None, Str("/usr/bin/openrazer-daemon")}

Pids == {1, 7, 12}
PidTexts ==
    {ToStr(p) \o <<"\n">> : p \in Pids}
    \cup {<<"7">>, <<>>, <<"x", "\n">>, <<" ", "7", "\n">>, <<"0", "7", "\n">>, <<"7", "\n", "1", "\n">>}
PidFiles == {[exists |-> FALSE]} \cup {[exists |-> TRUE, text |-> t] : t \in PidTexts}
PidPaths == {"XDG_RUNTIME_DIR/openrazer-daemon.pid", "/run/user/UID/openrazer-daemon.pid"}
ProcTables == SUBSET {ToStr(p) : p \in Pids}

Version(major, minor, patch) ==
    ToStr(major) \o <<".">> \o ToStr(minor) \o <<".">> \o ToStr(patch)
Versions ==
    {Version(a, b, c) : a \in 0..MaxMajor, b \in 0..MaxMinor, c \in 0..MaxPatch}
    \cup {Version(2, 9, 9)}
InstalledVersions == {Version(3, 0, 1), Version(3, 1, 0)}

Unames == {[sysname |-> "Linux", release |-> "6.1.0", machine |-> "x86_64"]}
DkmsTrees ==
    SUBSET ({expected_dkms_src(v) : v \in InstalledVersions}
            \cup {expected_dkms_build(u) : u \in Unames})
LsmodOutputs == {<<>>, S_razer \o <<"k", "b", "d", " ", "1", "\n">>, <<"s", "n", "d", " ", "2", "\n">>}

SbByteValues == {0, 1, 100}
RECURSIVE ByteSeqs(_)
ByteSeqs(n) ==
    IF n = 0 THEN {<<>>}
    ELSE ByteSeqs(n - 1) \cup {Append(s, b) : s \in {t \in ByteSeqs(n - 1) : Len(t) = n - 1}, b \in SbByteValues}
\* the SecureBoot variable has one fixed GUID: the glob matches no file or one
SbGlobs == {<<>>} \cup {<<f>> : f \in ByteSeqs(MaxSbLen)}
EfiStates == {[exists |-> FALSE]} \cup {[exists |-> TRUE, sb_sysfile |-> g] : g \in SbGlobs}

GroupsOutputs == {<<>>, <<"a", "d", "m", " ">> \o S_plugdev \o <<"\n">>, <<"a", "d", "m", "\n">>}
LogStates ==
    {[exists |-> FALSE], [exists |-> TRUE, decodes |-> FALSE, text |-> <<>>]}
    \cup {[exists |-> TRUE, decodes |-> TRUE, text |-> t] :
            t \in {<<>>, <<"o", "k", "\n">>, S_could_not_access \o <<"x", "\n">>}}

MalformedTexts ==
    {<<>>, <<"3", ".", "0">>, <<"3", ".", "0", ".", "1", ".", "2">>, <<"x", ".", "y", ".", "z">>,
     <<"3", ".", ".", "1">>, <<".", "0", ".", "1">>, <<"3", ".", "1", ".">>}
Response(code, text) == [kind |-> "response", status_code |-> code, text |-> text]
StatusCodes == {200, 404}
RemoteTexts == Versions \cup {v \o <<"\n">> : v \in InstalledVersions} \cup MalformedTexts
Requests ==
    {Raise("ConnectionError")} \cup {Response(c, t) : c \in StatusCodes, t \in RemoteTexts}
FewRequests ==
    {Raise("ConnectionError")}
    \cup {Response(c, t) : c \in StatusCodes,
                           t \in {Version(3, 0, 1), Version(3, 1, 0) \o <<"\n">>,
                                  <<"3", ".", "0">>, <<"x", ".", "y", ".", "z">>}}

-----------------------------------------------------------------------------
(* troubleshoot() *)

\* line 260: the host is the supported one
is_linux_any(name) == TRUE
is_linux(name) == name = "Linux"

\* lines 278-281: what the failure guard returns for a fault raised by a check
except_Exception_partial(exc, partial) == List(partial)
except_Exception(exc, partial) == Str(exc)

\* results.append(x) and results += xs
append_front(list, out) == IF out.kind = "list" THEN out.items \o list ELSE <<out>> \o list
append(list, out) == IF out.kind = "list" THEN list \o out.items ELSE Append(list, out)

\* one statement of the try block: call a check, keep its result, go on
Statement(fn, out, next) ==
    /\ invoked' = Append(invoked, fn)
    /\ IF out.kind = "raise"
       THEN /\ raised' = out
            /\ ret' = except_Exception(out.exc, results)
            /\ pc' = "done"
            /\ UNCHANGED results
       ELSE /\ results' = append(results, out)
            /\ pc' = next
            /\ UNCHANGED <<ret, raised>>
    /\ UNCHANGED <<sysname, PYTHON_LIB_PRESENT, efi, razer_log, call>>

Pending == [kind |-> "pending"]
NoCall == [fn |-> "", args |-> <<>>, out |-> Pending]

Init ==
    /\ sysname \in {"Linux", "Darwin"}
    /\ PYTHON_LIB_PRESENT \in BOOLEAN
    /\ efi \in EfiStates
    /\ razer_log \in LogStates
    /\ pc = "uname"
    /\ results = <<>>
    /\ invoked = <<>>
    /\ ret = Pending
    /\ raised = None
    /\ call = NoCall

CheckUname ==
    /\ pc = "uname"
    /\ IF ~is_linux(sysname)
       THEN ret' = None /\ pc' = "done"
       ELSE pc' = "daemon_installed" /\ UNCHANGED ret
    /\ UNCHANGED <<sysname, PYTHON_LIB_PRESENT, efi, razer_log, results, invoked, raised, call>>

DaemonInstalled ==
    /\ pc = "daemon_installed"
    /\ \E which \in WhichResults :
           Statement("_is_daemon_installed", _is_daemon_installed(which), "pylib_installed")

PylibInstalled ==
    /\ pc = "pylib_installed"
    /\ Statement("_is_pylib_installed", _is_pylib_installed, "daemon_running")

DaemonRunning ==
    /\ pc = "daemon_running"
    /\ \E xdg \in BOOLEAN, files \in [PidPaths -> PidFiles], proc \in ProcTables :
           Statement("_is_daemon_running", _is_daemon_running(xdg, files, proc), "dkms")

RunDkmsChecks ==
    /\ pc = "dkms"
    /\ \E v \in InstalledVersions, u \in Unames, fs \in DkmsTrees, kmod \in BOOLEAN,
          code \in {0, 1}, out \in LsmodOutputs :
           Statement("_run_dkms_checks", _run_dkms_checks(v, u, fs, kmod, code, out), "efi")

\* lines 270-272: EFI systems only
SecureBootEnabled ==
    /\ pc = "efi"
    /\ IF efi.exists
       THEN Statement("_is_secure_boot_enabled",
                      _is_secure_boot_enabled(efi.sb_sysfile), "plugdev")
       ELSE /\ pc' = "plugdev"
            /\ UNCHANGED <<sysname, PYTHON_LIB_PRESENT, efi, razer_log, results, invoked, ret, raised, call>>

UserInPlugdevGroup ==
    /\ pc = "plugdev"
    /\ \E cmd \in BOOLEAN, groups \in GroupsOutputs :
           Statement("_is_user_in_plugdev_group", _is_user_in_plugdev_group(cmd, groups), "sysfs")

SysfsPlugdevPermissionsOk ==
    /\ pc = "sysfs"
    /\ Statement("_is_sysfs_plugdev_permissions_ok",
                 _is_sysfs_plugdev_permissions_ok(razer_log), "up_to_date")

OpenrazerUpToDate ==
    /\ pc = "up_to_date"
    /\ \E v \in InstalledVersions, request \in FewRequests :
           Statement("_is_openrazer_up_to_date", _is_openrazer_up_to_date(v, request), "return")

Return ==
    /\ pc = "return"
    /\ ret' = List(results)
    /\ pc' = "done"
    /\ UNCHANGED <<sysname, PYTHON_LIB_PRESENT, efi, razer_log, results, invoked, raised, call>>

Next ==
    \/ CheckUname
    \/ DaemonInstalled
    \/ PylibInstalled
    \/ DaemonRunning
    \/ RunDkmsChecks
    \/ SecureBootEnabled
    \/ UserInPlugdevGroup
    \/ SysfsPlugdevPermissionsOk
    \/ OpenrazerUpToDate
    \/ Return

Spec == Init /\ [][Next]_vars

-----------------------------------------------------------------------------
(* Each check invoked on its own, with what it read kept in call *)

InitChecks ==
    /\ sysname = "Linux"
    /\ PYTHON_LIB_PRESENT \in BOOLEAN
    /\ efi = [exists |-> FALSE]
    /\ razer_log = [exists |-> FALSE]
    /\ pc = "uname"
    /\ results = <<>>
    /\ invoked = <<>>
    /\ ret = Pending
    /\ raised = None
    /\ call = NoCall

Invoke(fn, args, out) ==
    /\ call' = [fn |-> fn, args |-> args, out |-> out]
    /\ UNCHANGED <<sysname, PYTHON_LIB_PRESENT, efi, razer_log, pc, results, invoked, ret, raised>>

CallDaemonInstalled ==
    /\ call = NoCall
    /\ \E which \in WhichResults :
           Invoke("_is_daemon_installed", [which |-> which], _is_daemon_installed(which))

CallPylibInstalled ==
    /\ call = NoCall
    /\ Invoke("_is_pylib_installed", [lib |-> PYTHON_LIB_PRESENT], _is_pylib_installed)

CallDaemonRunning ==
    /\ call = NoCall
    /\ \E xdg \in BOOLEAN, files \in [PidPaths -> PidFiles], proc \in ProcTables :
           Invoke("_is_daemon_running", [xdg |-> xdg, files |-> files, proc |-> proc],
                  _is_daemon_running(xdg, files, proc))

CallRunDkmsChecks ==
    /\ call = NoCall
    /\ \E v \in InstalledVersions, u \in Unames, fs \in DkmsTrees, kmod \in BOOLEAN,
          code \in {0, 1}, out \in LsmodOutputs :
           Invoke("_run_dkms_checks",
                  [version |-> v, uname |-> u, fs |-> fs, kmod |-> kmod, code |-> code, lsmod |-> out],
                  _run_dkms_checks(v, u, fs, kmod, code, out))

CallSecureBootEnabled ==
    /\ call = NoCall
    /\ \E g \in SbGlobs :
           Invoke("_is_secure_boot_enabled", [sb_sysfile |-> g], _is_secure_boot_enabled(g))

CallUserInPlugdevGroup ==
    /\ call = NoCall
    /\ \E cmd \in BOOLEAN, groups \in GroupsOutputs :
           Invoke("_is_user_in_plugdev_group", [cmd |-> cmd, groups |-> groups],
                  _is_user_in_plugdev_group(cmd, groups))

CallSysfsPlugdevPermissionsOk ==
    /\ call = NoCall
    /\ \E log \in LogStates :
           Invoke("_is_sysfs_plugdev_permissions_ok", [log |-> log],
                  _is_sysfs_plugdev_permissions_ok(log))

CallOpenrazerUpToDate ==
    /\ call = NoCall
    /\ \E v \in Versions, request \in Requests :
           Invoke("_is_openrazer_up_to_date", [local_version |-> v, request |-> request],
                  _is_openrazer_up_to_date(v, request))

CallVersionNewerThen ==
    /\ call = NoCall
    /\ \E verA \in Versions, verB \in Versions :
           Invoke("_is_version_newer_then", [verA |-> verA, verB |-> verB],
                  _is_version_newer_then(verA, verB))

\* one invocation: the module keeps nothing between invocations
NextChecks ==
    \/ CallDaemonInstalled
    \/ CallPylibInstalled
    \/ CallDaemonRunning
    \/ CallRunDkmsChecks
    \/ CallSecureBootEnabled
    \/ CallUserInPlugdevGroup
    \/ CallSysfsPlugdevPermissionsOk
    \/ CallOpenrazerUpToDate
    \/ CallVersionNewerThen

SpecChecks == InitChecks /\ [][NextChecks]_vars

-----------------------------------------------------------------------------
(* Properties of troubleshoot(), checked under Spec *)

RanToTheEnd ==
    invoked = <<"_is_daemon_installed", "_is_pylib_installed", "_is_daemon_running",
                "_run_dkms_checks">>
              \o (IF efi.exists THEN <<"_is_secure_boot_enabled">> ELSE <<>>)
              \o <<"_is_user_in_plugdev_group", "_is_sysfs_plugdev_permissions_ok",
                   "_is_openrazer_up_to_date">>

\* C1: once a check has raised a fault, troubleshoot has stopped (no further
\* check runs), it has returned one error string, and the results collected
\* before the fault are not what it returned; it returns a list only when no
\* check raised and every check of the sequence has run.
C1_FailFast ==
    /\ raised # None =>
          /\ pc = "done"
          /\ ret.kind = "str"
          /\ ret.text = raised.exc
    /\ ret.kind = "list" => raised = None /\ RanToTheEnd /\ ret.items = results

C1_Witness ==
    /\ raised # None
    /\ invoked[Len(invoked)] = "_is_openrazer_up_to_date"
    /\ Len(results) >= 9
    /\ ret.kind = "str"

\* C7: on a host that is not Linux troubleshoot calls no check, collects no
\* result, and returns None: never a list, never an error string.
C7_NonLinuxNotApplicable ==
    sysname # "Linux" =>
        /\ invoked = <<>>
        /\ results = <<>>
        /\ pc \in {"uname", "done"}
        /\ ret \in {Pending, None}
        /\ pc = "done" => ret = None

C7_Witness == sysname = "Darwin" /\ pc = "done" /\ ret = None /\ invoked = <<>>

N_daemon_installed == "Daemon is installed"
N_pylib_installed == "Python library is installed"
N_daemon_running == "Daemon is running"
N_dkms_src == "DKMS sources are installed"
N_dkms_built == "DKMS module has been built for this kernel version"
N_dkms_probe == "DKMS module can be probed"
N_dkms_loaded == "DKMS module is currently loaded"
N_secure_boot == "Check Secure Boot (EFI) status"
N_plugdev == "User account has been added to the 'plugdev' group"
N_sysfs == "Check OpenRazer log for plugdev permission errors"
N_up_to_date == "OpenRazer is the latest version"

ReportOrder ==
    <<N_daemon_installed, N_pylib_installed, N_daemon_running,
      N_dkms_src, N_dkms_built, N_dkms_probe, N_dkms_loaded,
      N_secure_boot, N_plugdev, N_sysfs, N_up_to_date>>

Rank(name) == CHOOSE i \in 1..Len(ReportOrder) : ReportOrder[i] = name
IsResult(x) == x.kind = "dict"
TestNames(list) == [i \in 1..Len(SelectSeq(list, IsResult)) |-> SelectSeq(list, IsResult)[i].test_name]
InReportOrder(list) ==
    \A i, j \in 1..Len(list) :
        (i < j /\ IsResult(list[i]) /\ IsResult(list[j])) =>
            Rank(list[i].test_name) < Rank(list[j].test_name)
Listed(name) ==
    /\ name = N_secure_boot => efi.exists
    /\ name = N_sysfs => razer_log.exists

\* C6: while troubleshoot runs, and in the list it returns, no result stands
\* before one that precedes it in the order daemon-installed, library-installed,
\* daemon-running, DKMS sources, DKMS built, DKMS probe, DKMS loaded, secure
\* boot, plugdev, sysfs log, up-to-date; the list returned holds exactly the
\* results of that order (secure boot only when the EFI path exists, the log
\* result only when the log exists), every one listed once.
C6_FixedOrder ==
    /\ InReportOrder(results)
    /\ ret.kind = "list" =>
          /\ InReportOrder(ret.items)
          /\ TestNames(ret.items) = SelectSeq(ReportOrder, Listed)

C6_Witness ==
    /\ ret.kind = "list"
    /\ efi.exists
    /\ razer_log.exists
    /\ TestNames(ret.items) = ReportOrder

\* C2: when the log file does not exist the report returned has one entry
\* fewer than when it exists (nine entries without the EFI path, ten with it)
\* and every entry of it is a result: none is None.
C2_AbsentLogNoEntry ==
    (ret.kind = "list" /\ ~razer_log.exists) =>
        /\ Len(ret.items) = (IF efi.exists THEN 10 ELSE 9)
        /\ \A i \in 1..Len(ret.items) : IsResult(ret.items[i])

\* C8: the list returned holds a secure-boot result exactly when the EFI path
\* exists; that result's passed is None when the glob matched no file, and
\* otherwise it is True exactly when the last byte of the variable's file, the
\* status byte, is 0.
SecureBootResults(list) == SelectSeq(list, LAMBDA x : IsResult(x) /\ x.test_name = N_secure_boot)
C8_SecureBootEntry ==
    ret.kind = "list" =>
        /\ Len(SecureBootResults(ret.items)) = (IF efi.exists THEN 1 ELSE 0)
        /\ efi.exists =>
              LET passed == SecureBootResults(ret.items)[1].passed
                  files == efi.sb_sysfile
              IN  IF Len(files) = 0 THEN passed = None
                  ELSE /\ files[1] # <<>>
                       /\ passed = Bool(files[1][Len(files[1])] = 0)

C8_Witness ==
    /\ ret.kind = "list"
    /\ efi.exists
    /\ efi.sb_sysfile = << <<100, 0>> >>
    /\ SecureBootResults(ret.items)[1].passed = True

-----------------------------------------------------------------------------
(* Properties of the single checks, checked under SpecChecks *)

\* C3: with the client library not importable (and modprobe and lsmod present)
\* _run_dkms_checks returns four results, the first two with passed None, the
\* probe and loaded results with passed True or False.
C3_DkmsWithoutLibrary ==
    (call.fn = "_run_dkms_checks" /\ ~PYTHON_LIB_PRESENT /\ call.args.kmod) =>
        /\ call.out.kind = "list"
        /\ Len(call.out.items) = 4
        /\ call.out.items[1].passed = None
        /\ call.out.items[2].passed = None
        /\ call.out.items[3].passed = Bool(call.args.code = 0)
        /\ call.out.items[4].passed \in {True, False}

\* C4: _is_version_newer_then("3.1.0", "3.0.9") is True,
\* _is_version_newer_then("3.0.1", "3.0.1") is False and
\* _is_version_newer_then("2.9.9", "3.0.0") is False.
C4_VersionExamples ==
    call.fn = "_is_version_newer_then" =>
        /\ (call.args.verA = Version(3, 1, 0) /\ call.args.verB = Version(3, 0, 9)) => call.out = True
        /\ (call.args.verA = Version(3, 0, 1) /\ call.args.verB = Version(3, 0, 1)) => call.out = False
        /\ (call.args.verA = Version(2, 9, 9) /\ call.args.verB = Version(3, 0, 0)) => call.out = False

\* C5: _is_openrazer_up_to_date returns a result whose passed is None when the
\* request raises, when the remote text is not three dot-separated components,
\* and when the library is missing; a fault of the request never leaves it.
NotThreeComponents(request) ==
    request.kind = "response" /\ Len(Split(Strip(request.text), ".")) # 3
C5_UpToDateUnknown ==
    call.fn = "_is_openrazer_up_to_date" =>
        /\ (\/ call.args.request.kind = "raise"
            \/ NotThreeComponents(call.args.request)
            \/ ~PYTHON_LIB_PRESENT) =>
                /\ call.out.kind = "dict"
                /\ call.out.passed = None
        /\ call.args.request.kind = "raise" => call.out.kind # "raise"

\* C9: with the PID file missing at the path in use (under XDG_RUNTIME_DIR when
\* that is set, under /run/user/<uid> when it is not) _is_daemon_running returns
\* passed False and raises nothing; it returns passed True only when that file
\* exists and /proc has an entry for the PID its first line holds.
PidFileInUse(args) ==
    IF args.xdg THEN args.files["XDG_RUNTIME_DIR/openrazer-daemon.pid"]
    ELSE args.files["/run/user/UID/openrazer-daemon.pid"]
C9_DaemonRunning ==
    call.fn = "_is_daemon_running" =>
        /\ ~PidFileInUse(call.args).exists => call.out = Dict(N_daemon_running, False)
        /\ (call.out.kind = "dict" /\ call.out.passed = True) =>
              /\ PidFileInUse(call.args).exists
              /\ \E p \in Pids :
                    /\ DigitsVal(SelectSeq(Readline(PidFileInUse(call.args).text), IsDigit)) = p
                    /\ ToStr(p) \in call.args.proc

C9_Witness ==
    /\ call.fn = "_is_daemon_running"
    /\ ~call.args.xdg
    /\ ~call.args.files["/run/user/UID/openrazer-daemon.pid"].exists
    /\ call.args.files["XDG_RUNTIME_DIR/openrazer-daemon.pid"] = [exists |-> TRUE, text |-> <<"1", "2", "\n">>]
    /\ <<"1", "2">> \in call.args.proc
    /\ call.out = Dict(N_daemon_running, False)

\* C10: with the library present and a remote version of three numeric
\* components retrieved, passed is False exactly when the remote major is
\* greater than the local major or the remote minor.patch, read as one decimal
\* number, is greater than the local minor.patch; otherwise passed is True.
IsNumeric(s) == s # <<>> /\ \A i \in 1..Len(s) : IsDigit(s[i])
Retrieved(request) ==
    /\ request.kind = "response"
    /\ request.status_code = 200
    /\ Len(Split(Strip(request.text), ".")) = 3
    /\ \A i \in 1..3 : IsNumeric(Split(Strip(request.text), ".")[i])
RECURSIVE PadRight(_, _)
PadRight(s, n) == IF Len(s) >= n THEN s ELSE PadRight(Append(s, "0"), n)
Longer(s, t) == IF Len(s) > Len(t) THEN Len(s) ELSE Len(t)
\* minor.patch of r greater than minor.patch of l, as decimal numbers
DecimalGreater(r, l) ==
    \/ DigitsVal(r[2]) > DigitsVal(l[2])
    \/ /\ DigitsVal(r[2]) = DigitsVal(l[2])
       /\ DigitsVal(PadRight(r[3], Longer(r[3], l[3]))) > DigitsVal(PadRight(l[3], Longer(r[3], l[3])))
Newer(remote, local) ==
    LET r == Split(remote, ".")
        l == Split(local, ".")
    IN  DigitsVal(r[1]) > DigitsVal(l[1]) \/ DecimalGreater(r, l)
C10_UpToDatePassed ==
    (call.fn = "_is_openrazer_up_to_date" /\ PYTHON_LIB_PRESENT /\ Retrieved(call.args.request)) =>
        /\ call.out.kind = "dict"
        /\ call.out.passed = Bool(~Newer(Strip(call.args.request.text), call.args.local_version))

C10_Witness ==
    /\ call.fn = "_is_openrazer_up_to_date"
    /\ PYTHON_LIB_PRESENT
    /\ call.args.request = Response(200, Version(3, 1, 10))
    /\ call.args.local_version = Version(3, 1, 9)
    /\ call.out.passed = True

====
